---- MODULE Spec2Model ----
(***************************************************************************)
(* Risk-scoring decision engine (decision_engine.py).                      *)
(*                                                                         *)
(* The module is imported (the REJECT_AT / REVIEW_AT override runs), then  *)
(* assess_row is applied to one transaction row.  Values that arrive from  *)
(* outside (environment variables, cells of a row) are loosely typed; they *)
(* are modelled as cells: a missing key, None, a number, or a string.      *)
(***************************************************************************)
EXTENDS Integers, Sequences, FiniteSets, TLC

VARIABLES env, cfg, row, v, ctx, result, pc

vars == <<env, cfg, row, v, ctx, result, pc>>

(***************************************************************************)
(* Bound of the input domains: the largest customer_txn_30d.               *)
(***************************************************************************)
MaxFreq == 3

(***************************************************************************)
(* Loosely typed values.                                                   *)
(***************************************************************************)
Absent == [tag |-> "absent", n |-> 0, s |-> ""]
None == [tag |-> "none", n |-> 0, s |-> ""]
Num(n) == [tag |-> "num", n |-> n, s |-> ""]
Str(s) == [tag |-> "str", n |-> 0, s |-> s]

\* The decimal numerals that occur in inputs, with the integer each denotes.
Numerals ==
  ("0" :> 0) @@ ("4" :> 4) @@ ("6" :> 6) @@ ("10" :> 10) @@ ("12" :> 12)
  @@ ("23" :> 23) @@ ("101" :> 101)

\* Python's int(x): a number converts, a string converts when it is a
\* numeral, anything else (None, other text) raises.
int(x) ==
  CASE x.tag = "num" -> [ok |-> TRUE, val |-> x.n]
    [] x.tag = "str" /\ x.s \in DOMAIN Numerals -> [ok |-> TRUE, val |-> Numerals[x.s]]
    [] OTHER -> [ok |-> FALSE, val |-> 0]

\* Python's float(x), on the same values (floats here are integer-valued).
float(x) ==
  CASE x.tag = "num" -> [ok |-> TRUE, val |-> x.n]
    [] x.tag = "str" /\ x.s \in DOMAIN Numerals -> [ok |-> TRUE, val |-> Numerals[x.s]]
    [] OTHER -> [ok |-> FALSE, val |-> 0]

\* str.lower() and str.upper() on the strings that occur in inputs.
lower(s) ==
  CASE s = "HIGH" -> "high"
    [] s = "MEDIUM" -> "medium"
    [] s = "Low" -> "low"
    [] s = "New" -> "new"
    [] s = "Physical" -> "physical"
    [] s = "US" -> "us"
    [] s = "MX" -> "mx"
    [] OTHER -> s

upper(s) ==
  CASE s = "mx" -> "MX"
    [] s = "us" -> "US"
    [] s = "high" -> "HIGH"
    [] s = "low" -> "LOW"
    [] OTHER -> s

\* str(x) of a value; a float prints with its fractional part.
FloatStr(n) == ToString(n) \o ".0"

str(x) ==
  CASE x.tag = "num" -> ToString(x.n)
    [] x.tag = "none" -> "None"
    [] OTHER -> x.s

\* dict.get(key, default)
Get(d, key, default) == IF key \in DOMAIN d THEN d[key] ELSE default

\* row.get(key, default): the default is used only when the key is missing.
RowGet(r, key, default) == IF r[key].tag = "absent" THEN default ELSE r[key]

(***************************************************************************)
(* Configuration.                                                          *)
(***************************************************************************)
DECISION_ACCEPTED == "ACCEPTED"
DECISION_IN_REVIEW == "IN_REVIEW"
DECISION_REJECTED == "REJECTED"

DefaultWeights ==
  [ ip_risk |-> [low |-> 0, medium |-> 2, high |-> 4],
    email_risk |-> [low |-> 0, medium |-> 1, high |-> 3, new_domain |-> 2],
    device_fingerprint_risk |-> [low |-> 0, medium |-> 2, high |-> 4],
    user_reputation |-> [trusted |-> -2, recurrent |-> -1, new |-> 0, high_risk |-> 4],
    night_hour |-> 1,
    geo_mismatch |-> 2,
    high_amount |-> 2,
    latency_extreme |-> 2,
    new_user_high_amount |-> 2 ]

DEFAULT_CONFIG ==
  [ amount_thresholds |->
      ("digital" :> 2500) @@ ("physical" :> 6000) @@ ("subscription" :> 1500)
      @@ ("_default" :> 4000),
    latency_ms_extreme |-> 2500,
    chargeback_hard_block |-> 2,
    score_weights |-> DefaultWeights,
    score_to_decision |-> [reject_at |-> 10, review_at |-> 4] ]

\* Other weight tables a caller may pass in config: a rule switched off by a
\* zero weight, and a negative scalar weight.
WeightTables ==
  { DefaultWeights,
    [DefaultWeights EXCEPT !.high_amount = 0],
    [DefaultWeights EXCEPT !.new_user_high_amount = 0, !.night_hour = -1] }

\* The module-level override of the cutoffs: one try block around both
\* assignments, so the first int() that raises abandons the rest.
StartupOverride(c, e) ==
  LET rej == e.REJECT_AT
      rev == e.REVIEW_AT
      c1 == IF rej.tag # "none"
              THEN [c EXCEPT !.score_to_decision.reject_at = int(rej).val]
              ELSE c
      c2 == IF rev.tag # "none"
              THEN [c1 EXCEPT !.score_to_decision.review_at = int(rev).val]
              ELSE c1
  IN  IF rej.tag # "none" /\ ~int(rej).ok THEN c
      ELSE IF rev.tag # "none" /\ ~int(rev).ok THEN c1
      ELSE c2

(***************************************************************************)
(* Helpers.                                                                *)
(***************************************************************************)
is_night(hour) == hour >= 22 \/ hour <= 5

high_amount(amount, product_type, thresholds) ==
  LET t == Get(thresholds, product_type, Get(thresholds, "_default", 0))
  IN  amount >= t

_s(x, default, lower_) ==
  LET s == IF x.tag # "none" THEN str(x) ELSE default
  IN  IF lower_ THEN lower(s) ELSE s

_i(x, default) == IF int(x).ok THEN int(x).val ELSE default

_f(x, default) == IF float(x).ok THEN float(x).val ELSE default

(***************************************************************************)
(* _ScoreCtx: the running score and the reasons.  A reason is kept with    *)
(* the parts its text is formatted from (the rule, the interpolated detail *)
(* and the points), so that they can be read back without parsing.         *)
(***************************************************************************)
_ScoreCtx == [score |-> 0, reasons |-> <<>>]

Sign(points) == IF points >= 0 THEN "+" ELSE ""

Token(rule, detail, points, text) ==
  [rule |-> rule, detail |-> detail, pts |-> points, text |-> text]

\* Variant of add without the non-zero guard.
add_logs_zero(c, points, rule, detail) ==
  [score |-> c.score + points,
   reasons |-> Append(c.reasons,
     Token(rule, detail, points,
           rule \o detail \o "(" \o Sign(points) \o ToString(points) \o ")"))]

add(c, points, rule, detail) ==
  IF points # 0
    THEN [score |-> c.score + points,
          reasons |-> Append(c.reasons,
            Token(rule, detail, points,
                  rule \o detail \o "(" \o Sign(points) \o ToString(points) \o ")"))]
    ELSE c

_normalize_row(r) ==
  [ chargeback_count |-> _i(RowGet(r, "chargeback_count", Num(0)), 0),
    ip_risk |-> _s(RowGet(r, "ip_risk", Str("low")), "", TRUE),
    email_risk |-> _s(RowGet(r, "email_risk", Str("low")), "", TRUE),
    device_risk |-> _s(RowGet(r, "device_fingerprint_risk", Str("low")), "", TRUE),
    rep |-> _s(RowGet(r, "user_reputation", Str("new")), "", TRUE),
    hour |-> _i(RowGet(r, "hour", Num(12)), 0),
    bin_c |-> upper(_s(RowGet(r, "bin_country", Str("")), "", FALSE)),
    ip_c |-> upper(_s(RowGet(r, "ip_country", Str("")), "", FALSE)),
    amount |-> _f(RowGet(r, "amount_mxn", Num(0)), 0),
    ptype |-> _s(RowGet(r, "product_type", Str("_default")), "", TRUE),
    lat |-> _i(RowGet(r, "latency_ms", Num(0)), 0),
    freq |-> _i(RowGet(r, "customer_txn_30d", Num(0)), 0) ]

(***************************************************************************)
(* Rules.                                                                  *)
(***************************************************************************)
HardBlockToken ==
  Token("hard_block", ":chargebacks>=2+ip_high", 0, "hard_block:chargebacks>=2+ip_high")

\* Variant of the hard block with a strict comparison of the chargebacks.
_apply_hard_block_strict(n, c, cx) ==
  IF n.chargeback_count > c.chargeback_hard_block /\ n.ip_risk = "high"
    THEN <<TRUE, [cx EXCEPT !.reasons = Append(@, HardBlockToken)]>>
    ELSE <<FALSE, cx>>

\* Returns the pair <<blocked, ctx>>.
_apply_hard_block(n, c, cx) ==
  IF n.chargeback_count >= c.chargeback_hard_block /\ n.ip_risk = "high"
    THEN <<TRUE, [cx EXCEPT !.reasons = Append(@, HardBlockToken)]>>
    ELSE <<FALSE, cx>>

CategoricalStep(sw, cx, key, value) ==
  LET pts == Get(sw[key], value, 0)
  IN  IF pts # 0 THEN add(cx, pts, key, ":" \o value) ELSE cx

\* Variant of the categorical rule that looks at email_risk first.
_apply_categorical_email_first(n, sw, cx) ==
  LET c1 == CategoricalStep(sw, cx, "email_risk", n.email_risk)
      c2 == CategoricalStep(sw, c1, "ip_risk", n.ip_risk)
  IN  CategoricalStep(sw, c2, "device_fingerprint_risk", n.device_risk)

_apply_categorical(n, sw, cx) ==
  LET c1 == CategoricalStep(sw, cx, "ip_risk", n.ip_risk)
      c2 == CategoricalStep(sw, c1, "email_risk", n.email_risk)
  IN  CategoricalStep(sw, c2, "device_fingerprint_risk", n.device_risk)

_apply_reputation(n, sw, cx) ==
  LET rep_pts == Get(sw.user_reputation, n.rep, 0)
  IN  IF rep_pts # 0
        THEN [score |-> cx.score + rep_pts,
              reasons |-> Append(cx.reasons,
                Token("user_reputation", ":" \o n.rep, rep_pts,
                      "user_reputation:" \o n.rep \o "(" \o Sign(rep_pts)
                        \o ToString(rep_pts) \o ")"))]
        ELSE cx

_apply_night(n, sw, cx) ==
  IF is_night(n.hour)
    THEN add(cx, sw.night_hour, "night_hour", ":" \o ToString(n.hour))
    ELSE cx

\* Variant of the geo rule without the test for empty countries.
_apply_geo_no_empty_check(n, sw, cx) ==
  IF n.bin_c # n.ip_c
    THEN add(cx, sw.geo_mismatch, "geo_mismatch", ":" \o n.bin_c \o "!=" \o n.ip_c)
    ELSE cx

_apply_geo(n, sw, cx) ==
  IF n.bin_c # "" /\ n.ip_c # "" /\ n.bin_c # n.ip_c
    THEN add(cx, sw.geo_mismatch, "geo_mismatch", ":" \o n.bin_c \o "!=" \o n.ip_c)
    ELSE cx

\* Variant of the high-amount rule whose kicker ignores the reputation.
_apply_high_amount_any_rep(n, c, sw, cx) ==
  IF high_amount(n.amount, n.ptype, c.amount_thresholds)
    THEN LET c1 == add(cx, sw.high_amount, "high_amount",
                       ":" \o n.ptype \o ":" \o FloatStr(n.amount))
         IN  add(c1, sw.new_user_high_amount, "new_user_high_amount", "")
    ELSE cx

\* Variant of the high-amount rule whose kicker is not nested in the
\* amount test.
_apply_high_amount_unnested(n, c, sw, cx) ==
  LET c1 == IF high_amount(n.amount, n.ptype, c.amount_thresholds)
              THEN add(cx, sw.high_amount, "high_amount",
                       ":" \o n.ptype \o ":" \o FloatStr(n.amount))
              ELSE cx
  IN  IF n.rep = "new"
        THEN add(c1, sw.new_user_high_amount, "new_user_high_amount", "")
        ELSE c1

_apply_high_amount(n, c, sw, cx) ==
  IF high_amount(n.amount, n.ptype, c.amount_thresholds)
    THEN LET c1 == add(cx, sw.high_amount, "high_amount",
                       ":" \o n.ptype \o ":" \o FloatStr(n.amount))
         IN  IF n.rep = "new"
               THEN add(c1, sw.new_user_high_amount, "new_user_high_amount", "")
               ELSE c1
    ELSE cx

_apply_latency(n, c, sw, cx) ==
  IF n.lat >= c.latency_ms_extreme
    THEN add(cx, sw.latency_extreme, "latency_extreme", ":" \o ToString(n.lat) \o "ms")
    ELSE cx

\* Variant of the frequency buffer that also discounts a score of 0.
_apply_frequency_buffer_nonneg(n, cx) ==
  IF n.rep \in {"recurrent", "trusted"} /\ n.freq >= 3 /\ cx.score >= 0
    THEN add(cx, -1, "frequency_buffer", "")
    ELSE cx

_apply_frequency_buffer(n, cx) ==
  IF n.rep \in {"recurrent", "trusted"} /\ n.freq >= 3 /\ cx.score > 0
    THEN add(cx, -1, "frequency_buffer", "")
    ELSE cx

\* Variant of the mapping with a strict comparison against reject_at.
_map_decision_strict(score, thresholds) ==
  IF score > thresholds.reject_at THEN DECISION_REJECTED
  ELSE IF score >= thresholds.review_at THEN DECISION_IN_REVIEW
  ELSE DECISION_ACCEPTED

_map_decision(score, thresholds) ==
  IF score >= thresholds.reject_at THEN DECISION_REJECTED
  ELSE IF score >= thresholds.review_at THEN DECISION_IN_REVIEW
  ELSE DECISION_ACCEPTED

\* ";".join(reasons)
RECURSIVE Join(_)
Join(toks) ==
  IF toks = <<>> THEN ""
  ELSE IF Len(toks) = 1 THEN toks[1].text
  ELSE toks[1].text \o ";" \o Join(Tail(toks))

\* The score context as it stands right before the frequency buffer.
PreBuffer(n, c) ==
  LET sw == c.score_weights
      c1 == _apply_categorical(n, sw, _ScoreCtx)
      c2 == _apply_reputation(n, sw, c1)
      c3 == _apply_night(n, sw, c2)
      c4 == _apply_geo(n, sw, c3)
      c5 == _apply_high_amount(n, c, sw, c4)
  IN  _apply_latency(n, c, sw, c5)

\* The rules of assess_row on a normalised row: the final score context.
RunRules(n, c) ==
  LET hb == _apply_hard_block(n, c, _ScoreCtx)
  IN  IF hb[1] THEN hb[2] ELSE _apply_frequency_buffer(n, PreBuffer(n, c))

\* The dictionary assess_row returns, given the final score context.
Return(n, c, cx) ==
  IF _apply_hard_block(n, c, _ScoreCtx)[1]
    THEN [decision |-> DECISION_REJECTED, risk_score |-> 100,
          reasons |-> Join(cx.reasons)]
    ELSE [decision |-> _map_decision(cx.score, c.score_to_decision),
          risk_score |-> cx.score, reasons |-> Join(cx.reasons)]

assess_row(r, c) ==
  LET n == _normalize_row(r)
  IN  Return(n, c, RunRules(n, c))

(***************************************************************************)
(* Inputs.                                                                 *)
(***************************************************************************)
Rows ==
  [ chargeback_count : {Str("abc"), Num(2)},
    ip_risk : {Str("low"), Str("medium"), Str("HIGH")},
    email_risk : {Absent, Str("new_domain"), Str("weird")},
    device_fingerprint_risk : {Str("low"), Str("medium")},
    user_reputation : {Str("trusted"), Str("recurrent"), Str("new"), Str("high_risk")},
    hour : {Str("abc"), Num(14), Num(23)},
    bin_country : {Str("US"), Str("mx")},
    ip_country : {Str("MX"), Absent},
    amount_mxn : {Str("abc"), Num(4000), Num(6000)},
    product_type : {Str("physical"), Str("gift")},
    latency_ms : {Num(100), Num(3000)},
    customer_txn_30d : {Num(k) : k \in 2..MaxFreq} ]

NoEnv == [REJECT_AT |-> None, REVIEW_AT |-> None]

Envs == { NoEnv, [REJECT_AT |-> Str("101"), REVIEW_AT |-> Str("6")] }

EnvValues ==
  {None, Str("abc"), Str("0"), Str("4"), Str("6"), Str("10"), Str("12"), Str("101")}

StartupEnvs == [REJECT_AT : EnvValues, REVIEW_AT : EnvValues]

NoRow == [k \in {} |-> 0]
NoResult == [decision |-> "", risk_score |-> 0, reasons |-> ""]

(***************************************************************************)
(* The state machine.                                                      *)
(***************************************************************************)
Rest ==
  /\ row = NoRow
  /\ v = NoRow
  /\ ctx = _ScoreCtx
  /\ result = NoResult
  /\ pc = "import"

\* The process starts with the compiled-in configuration; the weight tables
\* other than the default one are taken without an override in the
\* environment.
Init ==
  /\ \E sw \in WeightTables :
       /\ cfg = [DEFAULT_CONFIG EXCEPT !.score_weights = sw]
       /\ env \in (IF sw = DefaultWeights THEN Envs ELSE {NoEnv})
  /\ Rest

\* Module import: the override of the cutoffs from the environment.
Startup ==
  /\ pc = "import"
  /\ cfg' = StartupOverride(cfg, env)
  /\ pc' = "ready"
  /\ UNCHANGED <<env, row, v, ctx, result>>

\* One call of assess_row.
AssessRow ==
  /\ pc = "ready"
  /\ \E r \in Rows :
       /\ row' = r
       /\ v' = _normalize_row(r)
       /\ ctx' = RunRules(v', cfg)
       /\ result' = Return(v', cfg, ctx')
  /\ pc' = "done"
  /\ UNCHANGED <<env, cfg>>

Next == Startup \/ AssessRow

Spec == Init /\ [][Next]_vars

\* The import alone, over a wider set of environments.
InitStartup ==
  /\ env \in StartupEnvs
  /\ cfg = DEFAULT_CONFIG
  /\ Rest

NextStartup == Startup

SpecStartup == InitStartup /\ [][NextStartup]_vars

TypeOK == pc \in {"import", "ready", "done"}

(***************************************************************************)
(* Vocabulary of the properties, read off the state.                       *)
(***************************************************************************)
Done == pc = "done"

HardBlocked == v.chargeback_count >= cfg.chargeback_hard_block /\ v.ip_risk = "high"

Threshold ==
  IF v.ptype \in DOMAIN cfg.amount_thresholds
    THEN cfg.amount_thresholds[v.ptype]
    ELSE cfg.amount_thresholds["_default"]

W == cfg.score_weights

RECURSIVE SumPts(_)
SumPts(toks) == IF toks = <<>> THEN 0 ELSE toks[1].pts + SumPts(Tail(toks))

Rules(toks) == [i \in DOMAIN toks |-> toks[i].rule]

Has(toks, rule) == \E i \in DOMAIN toks : toks[i].rule = rule

Without(toks, rules) == SelectSeq(toks, LAMBDA t : t.rule \notin rules)

BufferCount == Cardinality({i \in DOMAIN ctx.reasons : ctx.reasons[i].rule = "frequency_buffer"})

AmountCells == {r.amount_mxn : r \in Rows}

\* The same row with another amount, and what assess_row makes of it.
WithAmount(a) == [row EXCEPT !.amount_mxn = a]

BelowThreshold(a) == _normalize_row(WithAmount(a)).amount < Threshold

BufferFired(r) == Has(RunRules(_normalize_row(r), cfg).reasons, "frequency_buffer")

Bit(b) == IF b THEN 1 ELSE 0

(***************************************************************************)
(* C1: a record with chargeback_count >= chargeback_hard_block and ip_risk *)
(* "high" is REJECTED with risk_score 100 and exactly the one literal      *)
(* hard-block token, whatever the other fields and the configuration; no   *)
(* other rule contributes a token or points.                               *)
(***************************************************************************)
C1_HardBlock ==
  (Done /\ HardBlocked) =>
    /\ result.decision = "REJECTED"
    /\ result.risk_score = 100
    /\ result.reasons = "hard_block:chargebacks>=2+ip_high"
    /\ Len(ctx.reasons) = 1
    /\ ctx.reasons[1].text = "hard_block:chargebacks>=2+ip_high"
    /\ ctx.score = 0

C1_Witness ==
  /\ Done /\ HardBlocked
  /\ v.chargeback_count = cfg.chargeback_hard_block
  /\ v.rep = "high_risk" /\ is_night(v.hour) /\ v.amount >= Threshold
  /\ W = DefaultWeights
  /\ result.risk_score = 100

(***************************************************************************)
(* C2 as stated: raising amount_mxn from below the threshold to at or      *)
(* above it (reputation not "new", no hard block, all else fixed) raises   *)
(* risk_score by exactly the high_amount weight.                           *)
(***************************************************************************)
C2_Original ==
  (Done /\ ~HardBlocked /\ v.rep # "new" /\ v.amount >= Threshold) =>
    \A a \in AmountCells :
      BelowThreshold(a) =>
        result.risk_score = assess_row(WithAmount(a), cfg).risk_score + W.high_amount

(***************************************************************************)
(* C2 amended: under the same conditions the score accumulated before the  *)
(* frequency-buffer step rises by exactly the high_amount weight, and the  *)
(* returned risk_score rises by that weight less 1 for the higher-amount   *)
(* record if the frequency buffer fires for it, plus 1 if it fires for the *)
(* lower-amount record; so by exactly the weight when the buffer fires for *)
(* both records or for neither.                                            *)
(***************************************************************************)
C2_Amended ==
  (Done /\ ~HardBlocked /\ v.rep # "new" /\ v.amount >= Threshold) =>
    \A a \in AmountCells :
      BelowThreshold(a) =>
        LET lo == WithAmount(a)
            nlo == _normalize_row(lo)
        IN  /\ PreBuffer(v, cfg).score = PreBuffer(nlo, cfg).score + W.high_amount
            /\ result.risk_score =
                 assess_row(lo, cfg).risk_score + W.high_amount
                   - Bit(BufferFired(row)) + Bit(BufferFired(lo))
            /\ (BufferFired(row) <=> BufferFired(lo)) =>
                 result.risk_score = assess_row(lo, cfg).risk_score + W.high_amount

C2_Witness ==
  /\ Done /\ ~HardBlocked /\ v.rep = "recurrent" /\ v.amount >= Threshold
  /\ W.high_amount = 2
  /\ \E a \in AmountCells :
       /\ BelowThreshold(a)
       /\ BufferFired(row) /\ ~BufferFired(WithAmount(a))
       /\ result.risk_score = assess_row(WithAmount(a), cfg).risk_score + 1

(***************************************************************************)
(* C3: the token frequency_buffer(-1) appears at most once, and it appears *)
(* (taking exactly 1 point) iff the hard block did not fire, reputation is *)
(* trusted or recurrent, customer_txn_30d >= 3 and the score accumulated   *)
(* by the earlier rules is strictly positive.                              *)
(***************************************************************************)
C3_FrequencyBuffer ==
  Done =>
    LET before == Without(ctx.reasons, {"frequency_buffer"})
        due == /\ ~HardBlocked
               /\ v.rep \in {"trusted", "recurrent"}
               /\ v.freq >= 3
               /\ SumPts(before) > 0
    IN  /\ BufferCount <= 1
        /\ (BufferCount = 1) <=> due
        /\ \A i \in DOMAIN ctx.reasons :
             ctx.reasons[i].rule = "frequency_buffer" =>
               /\ ctx.reasons[i].text = "frequency_buffer(-1)"
               /\ ctx.reasons[i].pts = -1
        /\ ~HardBlocked => result.risk_score = SumPts(before) - Bit(due)

C3_Witness ==
  /\ Done /\ BufferCount = 1
  /\ v.rep = "trusted" /\ v.freq = 3
  /\ result.risk_score = SumPts(Without(ctx.reasons, {"frequency_buffer"})) - 1

(***************************************************************************)
(* C4 as stated: for every configuration of weights a new_user_high_amount *)
(* token never appears unless a high_amount token appears earlier in the   *)
(* same result; when amount >= threshold and reputation is "new" the       *)
(* kicker token immediately follows the high_amount token and both weights *)
(* are in risk_score.                                                      *)
(***************************************************************************)
C4_Original ==
  Done =>
    /\ \A i \in DOMAIN ctx.reasons :
         ctx.reasons[i].rule = "new_user_high_amount" =>
           \E j \in 1..(i - 1) : ctx.reasons[j].rule = "high_amount"
    /\ (~HardBlocked /\ v.amount >= Threshold /\ v.rep = "new") =>
         \E i \in DOMAIN ctx.reasons :
           /\ ctx.reasons[i].rule = "high_amount"
           /\ i + 1 \in DOMAIN ctx.reasons
           /\ ctx.reasons[i + 1].rule = "new_user_high_amount"

(***************************************************************************)
(* C4 amended: a new_user_high_amount token appears only when the hard     *)
(* block did not fire, amount >= threshold and reputation is "new"; if the *)
(* high_amount weight is non-zero the high_amount token immediately        *)
(* precedes it.  When those conditions hold, each of the two rules leaves  *)
(* its token iff its weight is non-zero, the kicker token immediately      *)
(* follows the high_amount token when both weights are non-zero, and both  *)
(* weights are in risk_score.                                              *)
(***************************************************************************)
C4_Amended ==
  Done =>
    LET fires == ~HardBlocked /\ v.amount >= Threshold /\ v.rep = "new"
        others == Without(ctx.reasons, {"high_amount", "new_user_high_amount"})
    IN  /\ \A i \in DOMAIN ctx.reasons :
             ctx.reasons[i].rule = "new_user_high_amount" =>
               /\ fires
               /\ ctx.reasons[i].pts = W.new_user_high_amount
               /\ W.high_amount # 0 =>
                    (i > 1 /\ ctx.reasons[i - 1].rule = "high_amount")
        /\ fires =>
             /\ Has(ctx.reasons, "high_amount") <=> W.high_amount # 0
             /\ Has(ctx.reasons, "new_user_high_amount") <=> W.new_user_high_amount # 0
             /\ (W.high_amount # 0 /\ W.new_user_high_amount # 0) =>
                  \E i \in DOMAIN ctx.reasons :
                    /\ ctx.reasons[i].rule = "high_amount"
                    /\ ctx.reasons[i].pts = W.high_amount
                    /\ i + 1 \in DOMAIN ctx.reasons
                    /\ ctx.reasons[i + 1].rule = "new_user_high_amount"
             /\ result.risk_score =
                  SumPts(others) + W.high_amount + W.new_user_high_amount

C4_Witness ==
  /\ Done /\ ~HardBlocked /\ v.amount = 6000 /\ v.ptype = "physical" /\ v.rep = "new"
  /\ W = DefaultWeights
  /\ \E i \in DOMAIN ctx.reasons :
       /\ ctx.reasons[i].text = "high_amount:physical:6000.0(+2)"
       /\ i + 1 \in DOMAIN ctx.reasons
       /\ ctx.reasons[i + 1].text = "new_user_high_amount(+2)"

(***************************************************************************)
(* C5 as stated: for every record and every configuration with             *)
(* reject_at > review_at the decision is REJECTED if risk_score >=         *)
(* reject_at, else IN_REVIEW if risk_score >= review_at, else ACCEPTED.    *)
(***************************************************************************)
Mapped(score) ==
  IF score >= cfg.score_to_decision.reject_at THEN "REJECTED"
  ELSE IF score >= cfg.score_to_decision.review_at THEN "IN_REVIEW"
  ELSE "ACCEPTED"

C5_Original ==
  (Done /\ cfg.score_to_decision.reject_at > cfg.score_to_decision.review_at) =>
    result.decision = Mapped(result.risk_score)

(***************************************************************************)
(* C5 amended: when the hard block does not fire, the decision is that     *)
(* step function of the returned risk_score, which is the unclamped sum of *)
(* the rules' points; when the hard block fires the decision is REJECTED   *)
(* with risk_score 100 whatever the cutoffs, which agrees with the step    *)
(* function exactly when reject_at <= 100.                                 *)
(***************************************************************************)
C5_Amended ==
  (Done /\ cfg.score_to_decision.reject_at > cfg.score_to_decision.review_at) =>
    /\ ~HardBlocked =>
         /\ result.decision = Mapped(result.risk_score)
         /\ result.risk_score = SumPts(ctx.reasons)
    /\ HardBlocked =>
         /\ result.decision = "REJECTED" /\ result.risk_score = 100
         /\ (result.decision = Mapped(result.risk_score))
              <=> cfg.score_to_decision.reject_at <= 100

C5_Witness ==
  /\ Done /\ ~HardBlocked
  /\ cfg.score_to_decision = [reject_at |-> 10, review_at |-> 4]
  /\ result.risk_score = 10 /\ result.decision = "REJECTED"

(***************************************************************************)
(* C6: under the default configuration a record with the three risk fields *)
(* "low", reputation "new", amount below its threshold, hour in 6..21,     *)
(* latency below the extreme and no country mismatch gets risk_score 0,    *)
(* ACCEPTED and empty reasons, whatever chargeback_count and               *)
(* customer_txn_30d are.                                                   *)
(***************************************************************************)
Clean ==
  /\ v.ip_risk = "low" /\ v.email_risk = "low" /\ v.device_risk = "low"
  /\ v.rep = "new"
  /\ v.amount < Threshold
  /\ v.hour \in 6..21
  /\ v.lat < cfg.latency_ms_extreme
  /\ ~(v.bin_c # "" /\ v.ip_c # "" /\ v.bin_c # v.ip_c)

C6_CleanRecord ==
  (Done /\ cfg = DEFAULT_CONFIG /\ Clean) =>
    /\ result = [decision |-> "ACCEPTED", risk_score |-> 0, reasons |-> ""]
    /\ ctx.reasons = <<>>

C6_Witness ==
  /\ Done /\ cfg = DEFAULT_CONFIG /\ Clean
  /\ v.chargeback_count >= 2 /\ v.freq >= 3
  /\ v.bin_c = "US" /\ v.ip_c = ""
  /\ result.decision = "ACCEPTED"

(***************************************************************************)
(* C7: without a hard block the tokens follow the fixed rule order         *)
(* ip_risk, email_risk, device_fingerprint_risk, user_reputation,          *)
(* night_hour, geo_mismatch, high_amount, new_user_high_amount,            *)
(* latency_extreme, frequency_buffer, at most one token per rule; hour 23, *)
(* US/MX, latency 3000 and all else low gives risk_score 5, IN_REVIEW and  *)
(* exactly the three tokens in that order.  With a hard block reasons has  *)
(* only the hard-block token.                                              *)
(***************************************************************************)
RuleOrder ==
  << "ip_risk", "email_risk", "device_fingerprint_risk", "user_reputation",
     "night_hour", "geo_mismatch", "high_amount", "new_user_high_amount",
     "latency_extreme", "frequency_buffer" >>

Rank(rule) == CHOOSE k \in DOMAIN RuleOrder : RuleOrder[k] = rule

NightGeoLatency ==
  /\ cfg = DEFAULT_CONFIG
  /\ v.hour = 23 /\ v.bin_c = "US" /\ v.ip_c = "MX" /\ v.lat = 3000
  /\ v.ip_risk = "low" /\ v.email_risk = "low" /\ v.device_risk = "low"
  /\ v.rep = "new" /\ v.amount < Threshold

C7_ReasonOrder ==
  Done =>
    /\ ~HardBlocked =>
         /\ \A i \in DOMAIN ctx.reasons :
              \E k \in DOMAIN RuleOrder : RuleOrder[k] = ctx.reasons[i].rule
         /\ \A i, j \in DOMAIN ctx.reasons :
              i < j => Rank(ctx.reasons[i].rule) < Rank(ctx.reasons[j].rule)
    /\ (~HardBlocked /\ NightGeoLatency) =>
         /\ result.risk_score = 5
         /\ result.decision = "IN_REVIEW"
         /\ result.reasons =
              "night_hour:23(+1);geo_mismatch:US!=MX(+2);latency_extreme:3000ms(+2)"
    /\ HardBlocked => Rules(ctx.reasons) = <<"hard_block">>

C7_Witness ==
  /\ Done /\ ~HardBlocked /\ NightGeoLatency
  /\ Rules(ctx.reasons) = <<"night_hour", "geo_mismatch", "latency_extreme">>

(***************************************************************************)
(* C8: a numeric field whose value does not parse as a number normalises   *)
(* to that field's default of the table (chargeback_count 0, hour 12,      *)
(* amount_mxn 0.0, latency_ms 0, customer_txn_30d 0), so an unparseable    *)
(* hour counts as daytime and does not trigger night_hour.                 *)
(***************************************************************************)
Unparseable(cell) == cell.tag # "absent" /\ ~int(cell).ok /\ ~float(cell).ok

C8_NumericDefaults ==
  Done =>
    /\ Unparseable(row.chargeback_count) => v.chargeback_count = 0
    /\ Unparseable(row.amount_mxn) => v.amount = 0
    /\ Unparseable(row.latency_ms) => v.lat = 0
    /\ Unparseable(row.customer_txn_30d) => v.freq = 0
    /\ Unparseable(row.hour) =>
         /\ v.hour = 12
         /\ ~Has(ctx.reasons, "night_hour")

(***************************************************************************)
(* C9: after the startup override each cutoff is decided on its own: it is *)
(* the supplied value when that is present and parses as an integer, and   *)
(* its compiled-in default (10 / 4) otherwise; an unparseable REJECT_AT    *)
(* does not keep a valid REVIEW_AT from being applied.                     *)
(***************************************************************************)
C9_IndependentOverride ==
  pc = "ready" =>
    /\ cfg.score_to_decision.reject_at =
         (IF int(env.REJECT_AT).ok THEN int(env.REJECT_AT).val ELSE 10)
    /\ cfg.score_to_decision.review_at =
         (IF int(env.REVIEW_AT).ok THEN int(env.REVIEW_AT).val ELSE 4)

(***************************************************************************)
(* C10: without a hard block no token carries a delta of 0 (a zero weight, *)
(* an unrecognised categorical or reputation value, is silent), risk_score *)
(* is the sum of the tokens' deltas, and every token, the reputation one   *)
(* included, reads {field}:{value}({sign}{points}).                        *)
(***************************************************************************)
C10_ScoreReasonConsistency ==
  (Done /\ ~HardBlocked) =>
    /\ \A i \in DOMAIN ctx.reasons :
         LET t == ctx.reasons[i]
         IN  /\ t.pts # 0
             /\ t.text = t.rule \o t.detail \o "("
                           \o (IF t.pts > 0 THEN "+" ELSE "") \o ToString(t.pts) \o ")"
    /\ result.risk_score = SumPts(ctx.reasons)
    /\ Has(ctx.reasons, "ip_risk") <=> Get(W.ip_risk, v.ip_risk, 0) # 0
    /\ Has(ctx.reasons, "email_risk") <=> Get(W.email_risk, v.email_risk, 0) # 0
    /\ Has(ctx.reasons, "device_fingerprint_risk")
         <=> Get(W.device_fingerprint_risk, v.device_risk, 0) # 0
    /\ Has(ctx.reasons, "user_reputation") <=> Get(W.user_reputation, v.rep, 0) # 0
    /\ \A i \in DOMAIN ctx.reasons :
         ctx.reasons[i].rule = "user_reputation" =>
           /\ ctx.reasons[i].pts = W.user_reputation[v.rep]
           /\ ctx.reasons[i].detail = ":" \o v.rep

C10_Witness ==
  /\ Done /\ ~HardBlocked
  /\ v.email_risk = "weird"
  /\ W.high_amount = 0 /\ v.amount >= Threshold
  /\ \E i \in DOMAIN ctx.reasons : ctx.reasons[i].text = "user_reputation:trusted(-2)"
  /\ result.risk_score = SumPts(ctx.reasons)
====
